---- MODULE Spec2Model ----
(***************************************************************************)
(* Model of the gin_tonic user service: the storage port (UserRepository   *)
(* over a relational table), the orchestrator (UserUsecase, including the  *)
(* paginated streaming export send_users) and the service facade           *)
(* (UserServer), which maps failures to caller-visible statuses.           *)
(***************************************************************************)
EXTENDS Integers, Sequences, FiniteSets, TLC

\* ------------------------------------------------------------------ bounds
\* BATCH_SIZE is 100 in user_usecase.rs:122 and the channel capacity is 128 in
\* user_server.rs:152; both are scaled down so that multi-batch exports and a
\* full channel are reachable in a finite check.
BATCH_SIZE == 2
CHANNEL_CAPACITY == 1
\* number of unary RPC calls in one behaviour without an export
MaxCalls == 2
\* number of unary RPC calls issued in a behaviour with an export
MaxStreamCalls == 1
\* number of records in the table when the behaviour starts
MaxInitUsers == 3

\* ------------------------------------------------------------ value model
\* String values a request may carry (the empty string is a legal protobuf
\* string) and Option<String> values, modelled as sequences of length <= 1.
Strings == {"", "a"}
OptStrings == {<<>>} \cup {<<s>> : s \in Strings}

\* entities::users::User
User(id, name, surname) == [id |-> id, name |-> name, surname |-> surname]

\* Result<T, crate::Error>; a value is a sequence of users (Option<User> is a
\* sequence of length <= 1, unit is the empty sequence).
Ok(v) == [ok |-> TRUE, err |-> "None", val |-> v]
Err(e) == [ok |-> FALSE, err |-> e, val |-> <<>>]

\* ---------------------------------------------------------------- state
VARIABLES
    table,      \* rows of the users table: a set of User records
    nextId,     \* next value of the id sequence of the users table
    budget,     \* number of unary RPC calls still to be issued
    last,       \* the last unary RPC call: request, result at each layer
    pc,         \* export task: "idle", "fetch", "send", "done"
    offset,     \* send_users: local offset
    batch,      \* send_users: records of the current batch not yet pushed
    chan,       \* the mpsc channel buffer (tx -> rx)
    rxOpen,     \* the receiving end is still held by the consumer
    delivered,  \* messages the consumer has received, in order
    outcome,    \* what the consumer saw at the end: "open", "closed", "error"
    fetches,    \* offsets passed to get_users_batch, in call order
    attempts,   \* number of tx.send calls made by the export task
    pushFailed, \* some tx.send returned Err (receiver gone)
    fetchFailed,\* some get_users_batch returned Err
    mutated,    \* the table changed while the export task was running
    snapshot,   \* table contents when the export started
    streamStatus, \* status of the StreamUsers response: "none" until it returns
    stable,     \* rows stored and unmodified since the export started
    removed     \* ids deleted while the export task was running

vars == <<table, nextId, budget, last, pc, offset, batch, chan, rxOpen,
          delivered, outcome, fetches, attempts, pushFailed, fetchFailed,
          mutated, snapshot, streamStatus, stable, removed>>

crudVars == <<table, nextId, budget, last, mutated, stable, removed>>

streamVars == <<pc, offset, batch, chan, rxOpen, delivered, outcome, fetches,
                attempts, pushFailed, fetchFailed, snapshot, streamStatus>>

\* ------------------------------------------------------------ storage port
Ids(t) == {u.id : u \in t}
Row(t, id) == CHOOSE u \in t : u.id = id

\* ORDER BY id
RECURSIVE SortById(_)
SortById(t) ==
    IF t = {} THEN <<>>
    ELSE LET m == CHOOSE u \in t : \A v \in t : u.id <= v.id
         IN <<m>> \o SortById(t \ {m})

\* id column default: the next value of the table's sequence
AssignId(n) == n

\* (mutant of repo_create_user: the two bind parameters are swapped)
repo_create_user_swapped(t, nid, name, surname, fault) ==
    IF fault THEN [res |-> Err("Internal"), table |-> t]
    ELSE LET u == User(AssignId(nid), surname, name)
         IN [res |-> Ok(<<u>>), table |-> t \cup {u}]

\* INSERT INTO users (name, surname) VALUES ($1, $2) RETURNING id, name, surname
repo_create_user(t, nid, name, surname, fault) ==
    IF fault THEN [res |-> Err("Internal"), table |-> t]
    ELSE LET u == User(AssignId(nid), name, surname)
         IN [res |-> Ok(<<u>>), table |-> t \cup {u}]

\* SELECT ... FROM users
repo_get_users(t, fault) ==
    IF fault THEN Err("Internal") ELSE Ok(SortById(t))

\* the sequence s back to front
RECURSIVE Reverse(_)
Reverse(s) == IF s = <<>> THEN <<>> ELSE Reverse(Tail(s)) \o <<Head(s)>>

\* (mutant of repo_get_users_batch: no ORDER BY, rows come newest first)
repo_get_users_batch_unordered(t, off, limit, fault) ==
    IF fault THEN Err("Internal")
    ELSE LET s == Reverse(SortById(t))
             hi == IF off + limit < Len(s) THEN off + limit ELSE Len(s)
         IN Ok(SubSeq(s, off + 1, hi))

\* (mutant of repo_get_users_batch: the window starts one row late)
repo_get_users_batch_late(t, off, limit, fault) ==
    IF fault THEN Err("Internal")
    ELSE LET s == SortById(t)
             hi == IF off + 1 + limit < Len(s) THEN off + 1 + limit ELSE Len(s)
         IN Ok(SubSeq(s, off + 2, hi))

\* SELECT ... ORDER BY id LIMIT $1 OFFSET $2
repo_get_users_batch(t, off, limit, fault) ==
    IF fault THEN Err("Internal")
    ELSE LET s == SortById(t)
             hi == IF off + limit < Len(s) THEN off + limit ELSE Len(s)
         IN Ok(SubSeq(s, off + 1, hi))

\* SELECT ... WHERE id = $1, fetch_one; RowNotFound becomes Ok(None)
repo_get_user_by_id(t, id, fault) ==
    IF fault THEN Err("Internal")
    ELSE IF id \in Ids(t) THEN Ok(<<Row(t, id)>>) ELSE Ok(<<>>)

\* SELECT ... WHERE name = $1, fetch_one: the set of results the call can
\* give (any matching row when several rows share the name)
repo_get_user_by_name(t, name, fault) ==
    IF fault THEN {Err("Internal")}
    ELSE LET m == {u \in t : u.name = name}
         IN IF m = {} THEN {Ok(<<>>)} ELSE {Ok(<<u>>) : u \in m}

\* (mutant of Coalesce: an omitted field is written as empty)
Coalesce_null(opt, cur) == IF opt = <<>> THEN "" ELSE opt[1]

\* COALESCE($1, name)
Coalesce(opt, cur) == IF opt = <<>> THEN cur ELSE opt[1]

\* UPDATE users SET name = COALESCE($1, name), surname = COALESCE($2, surname)
\* WHERE id = $3 RETURNING id, name, surname; fetch_optional
repo_update_user(t, id, name, surname, fault) ==
    IF fault THEN [res |-> Err("Internal"), table |-> t]
    ELSE IF id \notin Ids(t) THEN [res |-> Ok(<<>>), table |-> t]
    ELSE LET old == Row(t, id)
             new == User(old.id, Coalesce(name, old.name),
                         Coalesce(surname, old.surname))
         IN [res |-> Ok(<<new>>), table |-> (t \ {old}) \cup {new}]

\* (mutant of repo_delete_user: rows_affected() is not inspected)
repo_delete_user_silent(t, id, fault) ==
    IF fault THEN [res |-> Err("Internal"), table |-> t]
    ELSE [res |-> Ok(<<>>), table |-> {u \in t : u.id # id}]

\* DELETE FROM users WHERE id = $1; rows_affected() == 0 becomes NotFound
repo_delete_user(t, id, fault) ==
    IF fault THEN [res |-> Err("Internal"), table |-> t]
    ELSE IF id \notin Ids(t) THEN [res |-> Err("NotFound"), table |-> t]
    ELSE [res |-> Ok(<<>>), table |-> t \ {Row(t, id)}]

\* ------------------------------------------------------------ orchestrator
\* `?` propagates the repository error; a present value is wrapped unchanged
uc_passthrough(r) == r

\* if let Some(user) = res { Ok(..) } else { Err(Error::NotFound) }
uc_require_some(r) ==
    IF ~r.ok THEN r
    ELSE IF r.val # <<>> THEN Ok(r.val) ELSE Err("NotFound")

\* (mutants of uc_get_user_by_id and uc_update_user: absence is passed on as
\* a success)
uc_get_user_by_id_lenient(r) == uc_passthrough(r)
uc_update_user_lenient(r) == uc_passthrough(r)

uc_create_user(r) == uc_passthrough(r)
uc_get_users(r) == uc_passthrough(r)
uc_get_user_by_id(r) == uc_require_some(r)
uc_get_user_by_name(r) == uc_require_some(r)
uc_update_user(r) == uc_require_some(r)
uc_delete_user(r) == uc_passthrough(r)

\* send_users: tokio::spawn(..) is not awaited; the function returns Ok(())
uc_send_users == Ok(<<>>)

\* ---------------------------------------------------------- service facade
\* map_err closures of UserServer: the tonic status code of the response
StatusInternalOnly(r) == IF r.ok THEN "Ok" ELSE "Internal"
StatusWithNotFound(r) ==
    IF r.ok THEN "Ok"
    ELSE IF r.err = "NotFound" THEN "NotFound" ELSE "Internal"

srv_create_user(r) == StatusInternalOnly(r)
srv_get_users(r) == StatusInternalOnly(r)
srv_get_user_by_id(r) == StatusWithNotFound(r)
srv_get_user_by_name(r) == StatusWithNotFound(r)
srv_update_user(r) == StatusInternalOnly(r)
srv_delete_user(r) == StatusInternalOnly(r)
srv_stream_users(r) == StatusInternalOnly(r)

\* ------------------------------------------------------------------- Init
\* The table a behaviour starts from: k rows inserted earlier, ids 1..k.
InitTable(k) == {User(i, "a", "a") : i \in 1..k}

NoCall == [op |-> "none", id |-> 0, name |-> <<>>, surname |-> <<>>,
           repo |-> Ok(<<>>), uc |-> Ok(<<>>), status |-> "Ok"]

InitWith(b) ==
    /\ \E k \in 0..MaxInitUsers : table = InitTable(k) /\ nextId = k + 1
    /\ budget = b
    /\ last = NoCall
    /\ pc = "idle"
    /\ offset = 0
    /\ batch = <<>>
    /\ chan = <<>>
    /\ rxOpen = FALSE
    /\ delivered = <<>>
    /\ outcome = "open"
    /\ fetches = <<>>
    /\ attempts = 0
    /\ pushFailed = FALSE
    /\ fetchFailed = FALSE
    /\ mutated = FALSE
    /\ snapshot = {}
    /\ streamStatus = "none"
    /\ stable = {}
    /\ removed = {}

Init == InitWith(MaxStreamCalls)
InitCrud == InitWith(MaxCalls)

\* identifiers a request may name: every assigned id and the next, not yet
\* assigned one
ReqIds == 1..nextId

Running == pc \in {"fetch", "send"}

\* one unary call completes: the request and its result at each layer
Call(op, id, name, surname, repo, uc, status, t) ==
    /\ budget > 0
    /\ budget' = budget - 1
    /\ last' = [op |-> op, id |-> id, name |-> name, surname |-> surname,
                repo |-> repo, uc |-> uc, status |-> status]
    /\ table' = t
    /\ mutated' = (mutated \/ (Running /\ t # table))
    /\ stable' = IF Running THEN stable \cap t ELSE stable
    /\ removed' = IF Running THEN removed \cup (Ids(table) \ Ids(t))
                  ELSE removed
    /\ UNCHANGED streamVars

\* ------------------------------------------------------------ unary calls
CreateUser ==
    \E name \in Strings, surname \in Strings, fault \in BOOLEAN :
        LET r == repo_create_user(table, nextId, name, surname, fault)
            u == uc_create_user(r.res)
        IN /\ Call("create", 0, <<name>>, <<surname>>, r.res, u,
                   srv_create_user(u), r.table)
           /\ nextId' = IF r.res.ok THEN nextId + 1 ELSE nextId

GetUsers ==
    \E fault \in BOOLEAN :
        LET r == repo_get_users(table, fault)
            u == uc_get_users(r)
        IN /\ Call("get_users", 0, <<>>, <<>>, r, u, srv_get_users(u), table)
           /\ UNCHANGED nextId

GetUserById ==
    \E id \in ReqIds, fault \in BOOLEAN :
        LET r == repo_get_user_by_id(table, id, fault)
            u == uc_get_user_by_id(r)
        IN /\ Call("get_by_id", id, <<>>, <<>>, r, u,
                   srv_get_user_by_id(u), table)
           /\ UNCHANGED nextId

GetUserByName ==
    \E name \in Strings, fault \in BOOLEAN :
        \E r \in repo_get_user_by_name(table, name, fault) :
            LET u == uc_get_user_by_name(r)
            IN /\ Call("get_by_name", 0, <<name>>, <<>>, r, u,
                       srv_get_user_by_name(u), table)
               /\ UNCHANGED nextId

UpdateUser ==
    \E id \in ReqIds, name \in OptStrings, surname \in OptStrings,
       fault \in BOOLEAN :
        LET r == repo_update_user(table, id, name, surname, fault)
            u == uc_update_user(r.res)
        IN /\ Call("update", id, name, surname, r.res, u,
                   srv_update_user(u), r.table)
           /\ UNCHANGED nextId

DeleteUser ==
    \E id \in ReqIds, fault \in BOOLEAN :
        LET r == repo_delete_user(table, id, fault)
            u == uc_delete_user(r.res)
        IN /\ Call("delete", id, <<>>, <<>>, r.res, u,
                   srv_delete_user(u), r.table)
           /\ UNCHANGED nextId

\* -------------------------------------------------------- streaming export
\* StreamUsersResponse { user: Some(..) } wrapped in Ok for the channel
Message(u) == Ok(<<u>>)

\* UserServer::stream_users up to tokio::spawn in send_users: the channel is
\* created and the export task is launched; from here the task runs on the
\* runtime beside the call that launched it.
StreamUsers ==
    /\ pc = "idle"
    /\ pc' = "fetch"
    /\ offset' = 0
    /\ chan' = <<>>
    /\ rxOpen' = TRUE
    /\ snapshot' = table
    /\ stable' = table
    /\ removed' = {}
    /\ UNCHANGED <<batch, delivered, outcome, fetches, attempts, pushFailed,
                   fetchFailed, streamStatus>>
    /\ UNCHANGED <<table, nextId, budget, last, mutated>>

\* (mutant of StreamReturn: the call awaits the export task before it returns)
StreamReturn_awaiting ==
    /\ pc = "done"
    /\ streamStatus = "none"
    /\ streamStatus' = srv_stream_users(uc_send_users)
    /\ UNCHANGED <<pc, offset, batch, chan, rxOpen, delivered, outcome, fetches,
                   attempts, pushFailed, fetchFailed, snapshot>>
    /\ UNCHANGED crudVars

\* UserServer::stream_users after send_users returned: the response carrying
\* the receiving end is returned to the transport
StreamReturn ==
    /\ pc # "idle"
    /\ streamStatus = "none"
    /\ streamStatus' = srv_stream_users(uc_send_users)
    /\ UNCHANGED <<pc, offset, batch, chan, rxOpen, delivered, outcome, fetches,
                   attempts, pushFailed, fetchFailed, snapshot>>
    /\ UNCHANGED crudVars

\* (mutant of NextBatch: the offset advances by one less than BATCH_SIZE)
NextBatch_short ==
    /\ offset' = offset + BATCH_SIZE - 1
    /\ batch' = <<>>
    /\ pc' = "fetch"

\* what the export task does once a batch's for loop is left (by exhaustion
\* or by break): offset += BATCH_SIZE and back to the top of the loop
NextBatch ==
    /\ offset' = offset + BATCH_SIZE
    /\ batch' = <<>>
    /\ pc' = "fetch"

\* (mutant of OnBatchErr: the failed call is retried)
OnBatchErr_retry ==
    /\ pc' = "fetch"
    /\ fetchFailed' = TRUE
    /\ UNCHANGED batch

\* match arm Err(e): log and break out of the loop; the task ends
OnBatchErr ==
    /\ pc' = "done"
    /\ fetchFailed' = TRUE
    /\ UNCHANGED batch

\* match arm Ok(users) if users.is_empty(): break; the task ends
OnBatchEmpty ==
    /\ pc' = "done"
    /\ UNCHANGED <<batch, fetchFailed>>

\* match arm Ok(users): enter the for loop over the batch
OnBatch(users) ==
    /\ pc' = "send"
    /\ batch' = users
    /\ UNCHANGED fetchFailed

\* send_users loop head: repo.get_users_batch(offset, BATCH_SIZE).await and
\* the match on its result
Fetch ==
    /\ pc = "fetch"
    /\ \E fault \in BOOLEAN :
        LET r == repo_get_users_batch(table, offset, BATCH_SIZE, fault)
        IN /\ fetches' = Append(fetches, offset)
           /\ IF ~r.ok THEN OnBatchErr
              ELSE IF r.val = <<>> THEN OnBatchEmpty
              ELSE OnBatch(r.val)
    /\ UNCHANGED <<offset, chan, rxOpen, delivered, outcome, attempts,
                   pushFailed, snapshot, streamStatus>>
    /\ UNCHANGED crudVars

\* (mutant of SendOk: the push does not wait for capacity)
SendOk_unbounded ==
    /\ pc = "send"
    /\ rxOpen
    /\ chan' = Append(chan, Message(Head(batch)))
    /\ attempts' = attempts + 1
    /\ IF Tail(batch) = <<>>
       THEN NextBatch
       ELSE /\ batch' = Tail(batch)
            /\ UNCHANGED <<pc, offset>>
    /\ UNCHANGED <<rxOpen, delivered, outcome, fetches, pushFailed,
                   fetchFailed, snapshot, streamStatus>>
    /\ UNCHANGED crudVars

\* tx.send(Ok(res)).await accepted: the message enters the channel buffer
SendOk ==
    /\ pc = "send"
    /\ rxOpen
    /\ Len(chan) < CHANNEL_CAPACITY
    /\ chan' = Append(chan, Message(Head(batch)))
    /\ attempts' = attempts + 1
    /\ IF Tail(batch) = <<>>
       THEN NextBatch
       ELSE /\ batch' = Tail(batch)
            /\ UNCHANGED <<pc, offset>>
    /\ UNCHANGED <<rxOpen, delivered, outcome, fetches, pushFailed,
                   fetchFailed, snapshot, streamStatus>>
    /\ UNCHANGED crudVars

\* (mutant of SendErr: a push to a channel whose receiver is gone keeps
\* waiting for capacity)
SendErr_wait ==
    /\ pc = "send"
    /\ ~rxOpen
    /\ UNCHANGED vars

\* tx.send(..).await.is_err(): the receiver is gone; `break` leaves the for
\* loop over the batch
SendErr ==
    /\ pc = "send"
    /\ ~rxOpen
    /\ attempts' = attempts + 1
    /\ pushFailed' = TRUE
    /\ NextBatch
    /\ UNCHANGED <<chan, rxOpen, delivered, outcome, fetches, fetchFailed,
                   snapshot, streamStatus>>
    /\ UNCHANGED crudVars

\* the consumer takes the next message off the stream
Recv ==
    /\ streamStatus = "Ok"
    /\ rxOpen
    /\ chan # <<>>
    /\ delivered' = Append(delivered, Head(chan))
    /\ chan' = Tail(chan)
    /\ outcome' = IF Head(chan).ok THEN outcome ELSE "error"
    /\ UNCHANGED <<pc, offset, batch, rxOpen, fetches, attempts, pushFailed,
                   fetchFailed, snapshot, streamStatus>>
    /\ UNCHANGED crudVars

\* the task has ended (tx dropped) and the buffer is drained: the stream
\* yields None, an ordinary end of stream
StreamEnd ==
    /\ streamStatus = "Ok"
    /\ rxOpen
    /\ pc = "done"
    /\ chan = <<>>
    /\ outcome = "open"
    /\ outcome' = "closed"
    /\ UNCHANGED <<pc, offset, batch, chan, rxOpen, delivered, fetches,
                   attempts, pushFailed, fetchFailed, snapshot, streamStatus>>
    /\ UNCHANGED crudVars

\* the consumer goes away: rx is dropped, buffered messages with it
Disconnect ==
    /\ streamStatus = "Ok"
    /\ rxOpen
    /\ outcome = "open"
    /\ rxOpen' = FALSE
    /\ chan' = <<>>
    /\ UNCHANGED <<pc, offset, batch, delivered, outcome, fetches, attempts,
                   pushFailed, fetchFailed, snapshot, streamStatus>>
    /\ UNCHANGED crudVars

\* ---------------------------------------------------------- specifications
\* one export, its consumer, and writes to the table running beside it
Next ==
    \/ CreateUser
    \/ UpdateUser
    \/ DeleteUser
    \/ StreamUsers
    \/ StreamReturn
    \/ Fetch
    \/ SendOk
    \/ SendErr
    \/ Recv
    \/ StreamEnd
    \/ Disconnect

Spec == Init /\ [][Next]_vars

\* one export and its consumer over a table no unary call touches
InitLive == InitWith(0)

NextLive ==
    \/ StreamUsers
    \/ StreamReturn
    \/ Fetch
    \/ SendOk
    \/ SendErr
    \/ Recv
    \/ StreamEnd
    \/ Disconnect

\* The runtime keeps polling the spawned task: a storage call that can return
\* returns, and a push that can complete (or fail) does.
SpecLive ==
    /\ InitLive
    /\ [][NextLive]_vars
    /\ WF_vars(Fetch)
    /\ WF_vars(SendOk)
    /\ WF_vars(SendErr)

\* unary calls only, no export
NextCrud ==
    \/ CreateUser
    \/ GetUsers
    \/ GetUserById
    \/ GetUserByName
    \/ UpdateUser
    \/ DeleteUser

SpecCrud == InitCrud /\ [][NextCrud]_vars

\* ------------------------------------------------------------------ claims
\* a unary call of kind op completes in this step
Called(op) == budget' < budget /\ last'.op = op

\* the messages for a sequence of users
RECURSIVE Messages(_)
Messages(us) == IF us = <<>> THEN <<>> ELSE <<Message(Head(us))>> \o Messages(Tail(us))

\* number of occurrences of x in the sequence s
Count(s, x) == Cardinality({i \in 1..Len(s) : s[i] = x})

\* C1: for GetUserById, GetUserByName, UpdateUser and DeleteUser, a NotFound
\* failure from the orchestrator is reported as the "not found" status, and the
\* "internal error" status is reported only for failures other than NotFound.
C1_NotFoundReported ==
    last.op \in {"get_by_id", "get_by_name", "update", "delete"} =>
        /\ (last.uc = Err("NotFound") => last.status = "NotFound")
        /\ (last.status = "Internal" => (~last.uc.ok /\ last.uc.err # "NotFound"))

\* C2: once a channel push has failed because the consumer disconnected, the
\* export task makes no further get_users_batch call and no further push
\* attempt.
C2_StopsAfterFailedPush ==
    [][pushFailed => (fetches' = fetches /\ attempts' = attempts)]_vars

\* C3: with K records, no write during the export, no storage failure and a
\* consumer that reads to the end of the stream, the consumer has received
\* exactly the K records, in ascending identifier order, each once, when the
\* stream closes.
C3_CompleteExport ==
    (outcome = "closed" /\ ~mutated /\ ~fetchFailed) =>
        /\ delivered = Messages(SortById(snapshot))
        /\ Len(delivered) = Cardinality(snapshot)
        /\ \A i, j \in 1..Len(delivered) :
              i < j => delivered[i].val[1].id < delivered[j].val[1].id

C3_Witness ==
    /\ outcome = "closed"
    /\ ~mutated
    /\ ~fetchFailed
    /\ Cardinality(snapshot) > BATCH_SIZE
    /\ Len(delivered) = Cardinality(snapshot)

\* C4: when get_users_batch fails during a stream, the consumer observes an
\* error outcome on the stream, not an ordinary end of stream.
C4_FailureSurfaced ==
    (fetchFailed /\ outcome # "open") => outcome = "error"

\* C5: when get_users_batch fails, the export task stops without retrying: the
\* failed offset was requested exactly once, no further get_users_batch call
\* and no further push is made, and the messages pushed before the failure
\* reach a consumer that keeps reading, in the order they were pushed.
C5_NoRetryAfterFailure ==
    [][/\ fetchFailed' =>
            /\ pc' = "done"
            /\ Count(fetches', fetches'[Len(fetches')]) = 1
       /\ fetchFailed =>
            /\ fetches' = fetches
            /\ attempts' = attempts
            /\ rxOpen' => (delivered' \o chan' = delivered \o chan)]_vars

C5_Witness ==
    /\ fetchFailed
    /\ Len(fetches) >= 2
    /\ attempts >= BATCH_SIZE
    /\ outcome = "closed"
    /\ Len(delivered) = attempts

\* C6: GetUserById on an identifier that was never assigned or whose record
\* was deleted gets absence from storage and fails with NotFound at the
\* orchestrator; on the identifier of a stored record it returns that record.
C6_GetByIdExistence ==
    (last.op = "get_by_id" /\ last.repo.ok) =>
        IF last.id \in Ids(table)
        THEN last.uc = Ok(<<Row(table, last.id)>>)
        ELSE last.repo = Ok(<<>>) /\ last.uc = Err("NotFound")

\* a lookup of a deleted identifier: assigned earlier, no longer stored
C6_Witness ==
    /\ last.op = "get_by_id"
    /\ last.id < nextId
    /\ last.id \notin Ids(table)
    /\ last.uc = Err("NotFound")

\* C7: delete of an identifier with no stored record fails with NotFound and
\* leaves the store unchanged; delete of a stored identifier succeeds and
\* removes exactly that record, so a second delete of it fails with NotFound.
C7_DeleteFrame ==
    [][(Called("delete") /\ last'.repo.err # "Internal") =>
          IF last'.id \in Ids(table)
          THEN /\ last'.repo = Ok(<<>>)
               /\ table' = table \ {Row(table, last'.id)}
               /\ Cardinality(table') = Cardinality(table) - 1
               /\ repo_delete_user(table', last'.id, FALSE).res = Err("NotFound")
          ELSE /\ last'.repo = Err("NotFound")
               /\ table' = table]_vars

\* the second delete of an identifier: assigned earlier, already deleted
C7_Witness ==
    /\ last.op = "delete"
    /\ last.id < nextId
    /\ last.repo = Err("NotFound")
    /\ last.id \notin Ids(table)

\* C8: update of a stored record overwrites exactly the provided fields,
\* keeps every omitted field at its stored value, keeps the identifier and
\* changes no other record.
C8_UpdateFrame ==
    [][(Called("update") /\ last'.repo.ok /\ last'.id \in Ids(table)) =>
          /\ last'.id \in Ids(table')
          /\ LET old == Row(table, last'.id)
                 new == Row(table', last'.id)
             IN /\ new.id = old.id
                /\ new.name = (IF last'.name = <<>> THEN old.name
                               ELSE last'.name[1])
                /\ new.surname = (IF last'.surname = <<>> THEN old.surname
                                  ELSE last'.surname[1])
                /\ table' \ {new} = table \ {old}
                /\ last'.repo = Ok(<<new>>)
                /\ ((last'.name = <<>> /\ last'.surname = <<>>)
                        => table' = table)]_vars

\* a surname-only update that changed the surname and kept the name
C8_Witness ==
    /\ last.op = "update"
    /\ last.name = <<>>
    /\ last.surname = <<"">>
    /\ last.repo.ok
    /\ last.repo.val # <<>>
    /\ last.repo.val[1].name = "a"
    /\ last.repo.val[1].surname = ""
    /\ last.repo.val[1] \in table

\* C9: update of an identifier with no stored record gets absence from
\* storage, which the orchestrator turns into NotFound, and the store is
\* unchanged.
C9_UpdateMissing ==
    [][(Called("update") /\ last'.repo.err # "Internal"
            /\ last'.id \notin Ids(table)) =>
          /\ last'.repo = Ok(<<>>)
          /\ last'.uc = Err("NotFound")
          /\ table' = table]_vars

C9_Witness ==
    /\ last.op = "update"
    /\ last.id \notin Ids(table)
    /\ last.name # <<>>
    /\ last.uc = Err("NotFound")

\* C10: a successful create(N, S) returns a record with name N, surname S and
\* an identifier not assigned before; a get by that identifier then returns
\* the same record; no two stored records share an identifier.
C10_CreateFresh ==
    [][(Called("create") /\ last'.repo.ok) =>
          LET u == last'.repo.val[1]
          IN /\ u.name = last'.name[1]
             /\ u.surname = last'.surname[1]
             /\ u.id \notin 1..(nextId - 1)
             /\ u.id \notin Ids(table)
             /\ last'.uc = Ok(<<u>>)
             /\ uc_get_user_by_id(repo_get_user_by_id(table', u.id, FALSE))
                    = Ok(<<u>>)
             /\ \A v, w \in table' : v.id = w.id => v = w]_vars

\* a create after a delete, with different name and surname
C10_Witness ==
    /\ last.op = "create"
    /\ last.repo.ok
    /\ last.name # last.surname
    /\ \E i \in 1..(nextId - 1) : i \notin Ids(table)
    /\ last.repo.val[1] \in table

\* C11: if the consumer disconnects while the export task is running, the
\* task eventually ends: it is never left blocked on a channel push, and no
\* error is put on the stream.
C11_ProducerTerminates ==
    /\ (Running /\ ~rxOpen) ~> (pc = "done")
    /\ [](~rxOpen => outcome # "error")

\* the consumer left after M messages, 0 < M < K, and the task has ended
C11_Witness ==
    /\ pc = "done"
    /\ ~rxOpen
    /\ pushFailed
    /\ ~fetchFailed
    /\ delivered # <<>>
    /\ Len(delivered) < Cardinality(snapshot)

\* s is a prefix of t
IsPrefix(s, t) == Len(s) <= Len(t) /\ SubSeq(t, 1, Len(s)) = s

C14_ReturnsAtOnce ==
    /\ []((pc # "idle" /\ streamStatus = "none") => ENABLED StreamReturn)
    /\ [](streamStatus \in {"none", "Ok"})
    /\ [][streamStatus = "Ok" => streamStatus' = "Ok"]_vars

\* the call has returned before the task made its first storage call
C14_Witness ==
    /\ streamStatus = "Ok"
    /\ pc = "fetch"
    /\ fetches = <<>>
    /\ attempts = 0

\* C13: within one stream, messages are delivered in non-decreasing
\* identifier order in every interleaving, also while create, update and
\* delete calls run beside the export.
C13_DeliveredInIdOrder ==
    \A i, j \in 1..Len(delivered) :
        i < j => delivered[i].val[1].id <= delivered[j].val[1].id

\* more than one batch was delivered while the table was being written
C13_Witness ==
    /\ mutated
    /\ outcome = "closed"
    /\ Len(delivered) > BATCH_SIZE

\* C17: a record stored and unmodified for the whole export is delivered
\* exactly once when the consumer reads to stream close and storage never
\* fails, while other records are created or deleted.
C17_ExactlyOnce ==
    (outcome = "closed" /\ ~fetchFailed) =>
        \A u \in stable : Count(delivered, Message(u)) = 1

\* C17 (amended): such a record is delivered at most once, and exactly once
\* when no record with a smaller identifier is deleted while the export task
\* runs.
C17_ExactlyOnceUnlessEarlierDelete ==
    /\ \A u \in stable : Count(delivered, Message(u)) <= 1
    /\ (outcome = "closed" /\ ~fetchFailed) =>
          \A u \in stable :
              (\A d \in removed : d > u.id) => Count(delivered, Message(u)) = 1

\* a record with a larger identifier was deleted during the export and the
\* records before it were delivered
C17_Witness ==
    /\ outcome = "closed"
    /\ ~fetchFailed
    /\ removed # {}
    /\ \E u \in stable :
          /\ \A d \in removed : d > u.id
          /\ Count(delivered, Message(u)) = 1

\* C15: after any sequence of CreateUser and UpdateUser requests, every
\* stored record has a non-empty name and a non-empty surname.
C15_NamesNonEmpty ==
    \A u \in table : u.name # "" /\ u.surname # ""

\* C16: get_users_batch is called with offsets 0, BATCH_SIZE, 2*BATCH_SIZE,
\* ... in that order; the offset grows by exactly BATCH_SIZE, and only when
\* the last record of a non-empty batch has been pushed; the export stops
\* normally at the first empty batch, which is what storage returns whenever
\* the offset is at or beyond the record count.
C16_OffsetDiscipline ==
    [][/\ fetches' # fetches =>
              fetches' = Append(fetches, Len(fetches) * BATCH_SIZE)
       /\ offset' # offset =>
              /\ offset' = offset + BATCH_SIZE
              /\ pc = "send"
              /\ Len(batch) = 1
              /\ chan' = Append(chan, Message(batch[1]))
       /\ (fetches' # fetches /\ ~fetchFailed') =>
              ((offset >= Cardinality(table)) <=> (pc' = "done"))
      ]_vars

====
